---- MODULE Spec2Model ----
(***************************************************************************)
(* CoreDNS operator charm (src/src/charm.py, src/src/coredns_manifests.py) *)
(* as a state machine.  The framework dispatches one event at a time and   *)
(* every handler runs to completion, so each handler is one action.  The   *)
(* cluster, the configuration and leadership change through environment   *)
(* actions between handlers.                                               *)
(***************************************************************************)
EXTENDS Integers, Sequences, FiniteSets, TLC

VARIABLES
    config,     \* raw charm configuration (model.config)
    leader,     \* unit.is_leader(), an external fact read per call
    live,       \* cluster objects: identity -> "none" | "charm" | "other"
    address,    \* whether the cluster gives a live Service its clusterIP
    ready,      \* whether the conditions of live Deployments are all True
    stored,     \* CoreDNSCharm.stored: config_hash, deployed, destroying
    reconciled, \* Reconciler.stored.reconciled
    faults,     \* API failures injected so far
    changes,    \* changes the environment has made so far
    pending,    \* observers of the current event that still have to run
    last,       \* history: what the last handler did and published
    applied,    \* history: hashes this instance applied fully, without error
    retry,      \* history: hash whose apply failed in the last reconcile pass
    blocked,    \* history: the last reconcile pass found the configuration
                \* incomplete
    manifest    \* a CoreDNSManifests object read on its own: the model it
                \* was built in and what its properties last returned

vars == <<config, leader, live, address, ready, stored, reconciled, faults,
          changes, pending, last, applied, retry, blocked, manifest>>

----------------------------------------------------------------------------
(* Bounds of the model *)

\* live objects created by other actors at any one time
MaxForeign == 2
\* changes of configuration, leadership and cluster made from outside
MaxChanges == 2
\* API calls that fail over a run
MaxFaults == 1
\* the call of a loop that may fail is one of the first MaxFaultAt
MaxFaultAt == 1
\* dns-provider relations
NumRelations == 2

----------------------------------------------------------------------------
(* Configuration: coredns_manifests.py *)

CLUSTER_ROLE_NAME == "system:coredns"
DEPLOYMENT_NAME == "coredns"
SERVICE_NAME == "kube-dns"

ModelName == "test-model"
ModelUuid8 == "0fa1e2b3"
AppName == "coredns"

\* the Juju model the charm runs in, as the manipulations read it:
\* model.name, model.uuid[:8] and model.app.name
Model == [name |-> ModelName, uuid |-> ModelUuid8, app |-> AppName]

Range(s) == {s[i] : i \in DOMAIN s}

\* values the two required options take; "" is an unset option
CorefileValues == <<"", ".:53 { forward }">>
NamespaceValues == <<"", "{model}", "kube-system">>
DomainValues == <<"cluster.local", "example.org">>
\* the default of the domain option
DomainValue == DomainValues[1]

\* the configurations in which domain keeps its default
RawConfigs ==
    [corefile : Range(CorefileValues), coredns_namespace : Range(NamespaceValues),
     domain : {DomainValue}]

\* the complete configurations, with any domain
CompleteConfigs ==
    [corefile : Range(CorefileValues) \ {""},
     coredns_namespace : Range(NamespaceValues) \ {""},
     domain : Range(DomainValues)]

\* a variant that keeps the options that are "" or None
Config_keep_empty(raw) ==
    [k \in DOMAIN raw \cup {"release"} |-> IF k = "release" THEN "null" ELSE raw[k]]

\* Python's None, as json.dumps writes it
None == "null"

\* CoreDNSManifests.config: options that are "" or None are dropped, and
\* coredns_release is renamed to release (None here: the option is left unset)
Config(raw) ==
    LET kept == {k \in DOMAIN raw : raw[k] # "" /\ raw[k] # None}
    IN  [k \in kept \cup {"release"} |-> IF k = "release" THEN None ELSE raw[k]]

\* dict.get: None, modelled as "", for an absent key
Get(cfg, k) == IF k \in DOMAIN cfg THEN cfg[k] ELSE ""

IndexOf(seq, v) == CHOOSE i \in 1..Len(seq) : seq[i] = v

\* a Corefile with placeholders, and the values of the forward option
CorefileTemplate == "kubernetes ${domain} forward . ${forward} ${unknown}"
ForwardValues == <<"", "1.1.1.1">>

\* the keys of a derived configuration as sorted() orders them
SortedKeys == <<"coredns_namespace", "corefile", "domain", "forward", "release">>

\* the order in which model.config iterates when nothing else is said
ConfigOrder == <<"corefile", "coredns_namespace", "domain", "forward">>

\* the values a key of the derived configuration takes
Values(k) ==
    CASE k = "corefile" -> CorefileValues \o <<CorefileTemplate>>
      [] k = "coredns_namespace" -> NamespaceValues
      [] k = "domain" -> DomainValues
      [] k = "forward" -> ForwardValues \o <<None>>
      [] k = "release" -> <<None>>

\* the order of the derived configuration: the keys kept, in the order of
\* the raw configuration, then release, which is assigned last
DerivedOrder(order) == order \o <<"release">>

\* dict.items(): the items of d, its keys in the order they were inserted
Items(d, order) ==
    LET ks == SelectSeq(order, LAMBDA k : k \in DOMAIN d)
    IN  [i \in 1..Len(ks) |-> <<ks[i], d[ks[i]]>>]

\* sorted(items) by key, as json.dumps(sort_keys=True) does: insertion sort
RECURSIVE InsertByKey(_, _)
InsertByKey(item, sorted) ==
    IF Len(sorted) = 0 THEN <<item>>
    ELSE IF IndexOf(SortedKeys, item[1]) <= IndexOf(SortedKeys, Head(sorted)[1])
         THEN <<item>> \o sorted
         ELSE <<Head(sorted)>> \o InsertByKey(item, Tail(sorted))

RECURSIVE SortByKey(_)
SortByKey(items) ==
    IF Len(items) = 0 THEN <<>>
    ELSE InsertByKey(Head(items), SortByKey(Tail(items)))

\* a variant that serialises the items in the order of the dict
json_dumps_unsorted(d, order) == Items(d, order)

\* json.dumps(d, sort_keys=True): the serialisation is the sequence of items
json_dumps(d, order) == SortByKey(Items(d, order))

\* every item a serialisation may hold
AllItems ==
    LET ItemsOf(k) == [i \in 1..Len(Values(k)) |-> <<k, Values(k)[i]>>]
    IN  ItemsOf(SortedKeys[1]) \o ItemsOf(SortedKeys[2]) \o ItemsOf(SortedKeys[3])
        \o ItemsOf(SortedKeys[4]) \o ItemsOf(SortedKeys[5])

\* hashlib.sha256(...).hexdigest(): the digest is modelled as an injective
\* code of the serialisation, item by item in its order; it is never 0
RECURSIVE sha256(_)
sha256(json_str) ==
    IF Len(json_str) = 0 THEN 0
    ELSE IndexOf(AllItems, Head(json_str))
         + (Len(AllItems) + 1) * sha256(Tail(json_str))

\* CoreDNSManifests.hash, the derived configuration iterating in order
manifest_hash(cfg, order) == sha256(json_dumps(cfg, order))

\* the derived configurations of the charm
CharmConfigs == {Config(r) : r \in RawConfigs \cup CompleteConfigs}

\* CoreDNSManifests.hash of each of them, computed once
CharmHashes == [cfg \in CharmConfigs |-> manifest_hash(cfg, DerivedOrder(ConfigOrder))]

\* CoreDNSManifests.hash in the charm
hash(cfg) == CharmHashes[cfg]

\* a variant that takes the placeholder {model} for no namespace
evaluate_placeholder(cfg) ==
    IF Get(cfg, "corefile") = ""
    THEN "Provider manifests waiting for definition of corefile"
    ELSE IF Get(cfg, "coredns_namespace") \in {"", "{model}"}
         THEN "Provider manifests waiting for definition of coredns_namespace"
         ELSE ""

\* a variant that looks at coredns_namespace first
evaluate_namespace_first(cfg) ==
    IF Get(cfg, "coredns_namespace") = ""
    THEN "Provider manifests waiting for definition of coredns_namespace"
    ELSE IF Get(cfg, "corefile") = ""
         THEN "Provider manifests waiting for definition of corefile"
         ELSE ""

\* CoreDNSManifests.evaluate: "" stands for None
evaluate(cfg) ==
    IF Get(cfg, "corefile") = ""
    THEN "Provider manifests waiting for definition of corefile"
    ELSE IF Get(cfg, "coredns_namespace") = ""
         THEN "Provider manifests waiting for definition of coredns_namespace"
         ELSE ""

\* _model_formatter: str.format with the one placeholder {model}
model_formatter(config_ns, model_name) ==
    IF config_ns = "{model}" THEN model_name ELSE config_ns

----------------------------------------------------------------------------
(* Rendering: the bundled release and the manipulations *)

NamespacedKinds == {"ConfigMap", "Deployment", "Service", "ServiceAccount"}

\* the resources of the bundled upstream release, by identity
Upstream ==
    << [kind |-> "ClusterRole", namespace |-> "", name |-> CLUSTER_ROLE_NAME],
       [kind |-> "ClusterRoleBinding", namespace |-> "", name |-> CLUSTER_ROLE_NAME],
       [kind |-> "ConfigMap", namespace |-> "kube-system", name |-> DEPLOYMENT_NAME],
       [kind |-> "Deployment", namespace |-> "kube-system", name |-> DEPLOYMENT_NAME],
       [kind |-> "Service", namespace |-> "kube-system", name |-> SERVICE_NAME],
       [kind |-> "ServiceAccount", namespace |-> "kube-system", name |-> DEPLOYMENT_NAME] >>

\* the upstream objects: the binding carries the name of the role it
\* refers to and its subjects, the ServiceAccount of the release
UpstreamObject(i) ==
    IF Upstream[i].kind = "ClusterRoleBinding"
    THEN [kind |-> "ClusterRoleBinding", namespace |-> "", name |-> CLUSTER_ROLE_NAME,
          roleRef |-> CLUSTER_ROLE_NAME,
          subjects |-> <<[kind |-> "ServiceAccount", name |-> DEPLOYMENT_NAME,
                          namespace |-> "kube-system"]>>]
    ELSE Upstream[i]

\* HashableResource: kind, namespace and name of an object
Ident(obj) == [kind |-> obj.kind, namespace |-> obj.namespace, name |-> obj.name]

\* a variant that writes the option as it is, placeholder included
AdjustNamespace_unformatted(obj, cfg, m) ==
    IF obj.kind \in NamespacedKinds
    THEN [obj EXCEPT !.namespace = cfg["coredns_namespace"]]
    ELSE obj

\* AdjustNamespace.__call__ in model m: the namespace of a namespaced
\* object, and the namespace of every subject of the binding that still
\* has its upstream name
AdjustNamespace(obj, cfg, m) ==
    LET ns == model_formatter(cfg["coredns_namespace"], m.name)
    IN  IF obj.kind \in NamespacedKinds
        THEN [obj EXCEPT !.namespace = ns]
        ELSE IF obj.kind = "ClusterRoleBinding" /\ obj.name = CLUSTER_ROLE_NAME
        THEN [obj EXCEPT !.subjects =
                  [i \in DOMAIN @ |-> [@[i] EXCEPT !.namespace = ns]]]
        ELSE obj

\* a variant that leaves the uuid out of the name
ClusterRoleNameIn_no_uuid(m) == "juju:" \o m.name \o ":" \o m.app

\* AdjustClusterRoleName.name
ClusterRoleNameIn(m) == "juju:" \o m.name \o "-" \o m.uuid \o ":" \o m.app

ClusterRoleName == ClusterRoleNameIn(Model)

\* a variant that renames the binding and leaves its roleRef
AdjustClusterRoleName_metadata(obj, m) ==
    IF obj.kind \in {"ClusterRole", "ClusterRoleBinding"} /\ obj.name = CLUSTER_ROLE_NAME
    THEN [obj EXCEPT !.name = ClusterRoleNameIn(m)]
    ELSE obj

\* AdjustClusterRoleName.__call__: the binding and the role are recognised
\* by their upstream name
AdjustClusterRoleName(obj, m) ==
    IF obj.kind = "ClusterRoleBinding" /\ obj.name = CLUSTER_ROLE_NAME
    THEN [obj EXCEPT !.roleRef = ClusterRoleNameIn(m), !.name = ClusterRoleNameIn(m)]
    ELSE IF obj.kind = "ClusterRole" /\ obj.name = CLUSTER_ROLE_NAME
    THEN [obj EXCEPT !.name = ClusterRoleNameIn(m)]
    ELSE obj

\* a variant that removes the object when the option is the placeholder
AdjustServiceAccount_placeholder(obj, cfg, m) ==
    /\ obj.kind = "ServiceAccount"
    /\ obj.name = DEPLOYMENT_NAME
    /\ cfg["coredns_namespace"] = "{model}"

\* AdjustServiceAccount.__call__: TRUE removes the object
AdjustServiceAccount(obj, cfg, m) ==
    /\ obj.kind = "ServiceAccount"
    /\ obj.name = DEPLOYMENT_NAME
    /\ model_formatter(cfg["coredns_namespace"], m.name) = m.name

\* rendering reads config["corefile"] and config["coredns_namespace"]: a
\* KeyError when either is absent from the derived configuration
Renderable(cfg) == "corefile" \in DOMAIN cfg /\ "coredns_namespace" \in DOMAIN cfg

\* a variant in which the rename runs before the namespace rewrite
manipulations_rename_first(obj, cfg, m) ==
    AdjustNamespace(AdjustClusterRoleName(obj, m), cfg, m)

\* the patches of CoreDNSManifests.__init__ that write names and
\* namespaces, in the order of the list
manipulations(obj, cfg, m) ==
    AdjustClusterRoleName(AdjustNamespace(obj, cfg, m), m)

RECURSIVE RenderFrom(_, _, _)
RenderFrom(i, cfg, m) ==
    IF i > Len(Upstream) THEN <<>>
    ELSE IF AdjustServiceAccount(UpstreamObject(i), cfg, m)
         THEN RenderFrom(i + 1, cfg, m)
         ELSE <<manipulations(UpstreamObject(i), cfg, m)>>
              \o RenderFrom(i + 1, cfg, m)

\* the objects of the one manifest as rendered in model m
manifest_objects(cfg, m) == RenderFrom(1, cfg, m)

\* Manifests.resources of the one manifest in model m, in the order it is
\* iterated, by identity
manifest_resources(cfg, m) ==
    LET objs == manifest_objects(cfg, m)
    IN  [i \in 1..Len(objs) |-> Ident(objs[i])]

\* Manifests.resources of each configuration of the charm that renders,
\* computed once
CharmResources ==
    [cfg \in {c \in CharmConfigs : Renderable(c)} |-> manifest_resources(cfg, Model)]

\* Manifests.resources in the model of the charm
resources(cfg) == CharmResources[cfg]

\* every identity some complete configuration renders
Identities ==
    UNION {Range(resources(Config(r))) :
             r \in {q \in RawConfigs : Renderable(Config(q))}}

\* str(HashableResource): Kind/[namespace/]name
IdStr(id) ==
    id.kind \o "/" \o (IF id.namespace = "" THEN "" ELSE id.namespace \o "/") \o id.name

----------------------------------------------------------------------------
(* The manifest object on its own, as test_coredns_manifests.py reads it *)

\* string.Template: the text and the ${name} placeholders of a Corefile
Text(s) == [placeholder |-> FALSE, text |-> s]
Placeholder(name) == [placeholder |-> TRUE, text |-> name]

Template(s) ==
    IF s = CorefileTemplate
    THEN <<Text("kubernetes "), Placeholder("domain"), Text(" forward . "),
           Placeholder("forward"), Text(" "), Placeholder("unknown")>>
    ELSE <<Text(s)>>

\* a variant that raises on a placeholder that is not a key: substitute
substitute(template, mapping) ==
    IF \E i \in 1..Len(template) :
           template[i].placeholder /\ template[i].text \notin DOMAIN mapping
    THEN "KeyError"
    ELSE LET Piece(t) == IF t.placeholder THEN mapping[t.text] ELSE t.text
             RECURSIVE Concat(_)
             Concat(ts) == IF Len(ts) = 0 THEN "" ELSE Piece(Head(ts)) \o Concat(Tail(ts))
         IN  Concat(template)

\* Template.safe_substitute: a placeholder that is a key of the mapping is
\* replaced by the value, any other is left as it is written
safe_substitute(template, mapping) ==
    LET Piece(t) ==
            IF ~t.placeholder THEN t.text
            ELSE IF t.text \in DOMAIN mapping THEN mapping[t.text]
            ELSE "${" \o t.text \o "}"
        RECURSIVE Concat(_)
        Concat(ts) == IF Len(ts) = 0 THEN "" ELSE Piece(Head(ts)) \o Concat(Tail(ts))
    IN  Concat(template)

\* AdjustConfigMap.corefile
corefile(cfg) == safe_substitute(Template(cfg["corefile"]), cfg)

\* what no property has returned
NoValue == "unread"

\* the manifest object before any of its properties is read
Unread(m, order) ==
    [model |-> m,          \* the model it was built in
     order |-> order,      \* the order in which model.config iterates
     call |-> "none",      \* the property read last
     raised |-> FALSE,     \* whether that raised KeyError
     derived |-> NoValue,  \* config
     hash |-> 0,           \* hash()
     evaluation |-> NoValue,  \* evaluate(), "" for None
     resources |-> <<>>,   \* resources, by identity
     objects |-> <<>>,     \* resources, the objects
     corefile |-> NoValue, \* data["Corefile"] of the rendered ConfigMap
     earlier |-> <<>>]     \* the resources the read before the last returned

----------------------------------------------------------------------------
(* Statuses and the status context (charms.contextual_status) *)

Status(name, message) == [name |-> name, message |-> message]

\* nothing published
Unset == Status("unset", "")
NoData == [k \in {} |-> ""]
Relations == 1..NumRelations

\* no analysis reported
NoReport == [conflicting |-> {}, correct |-> {}, missing |-> {}, extra |-> {}]

\* the context every handler starts from: the state it may change, what it
\* has published and what it has done so far
Ctx ==
    [stored |-> stored, live |-> live, faults |-> faults,
     status |-> Unset,    \* unit.status as last assigned
     version |-> "unset", \* unit.set_workload_version
     app |-> Unset,       \* app.status
     rel |-> [r \in Relations |-> NoData],   \* relation data written
     added |-> <<>>,      \* statuses given to status.add
     phases |-> <<>>,     \* phases entered, in order
     applies |-> 0,       \* client.apply calls issued
     deletes |-> {},      \* client.delete calls issued: identity, live owner
                          \* and the answer of the cluster
     writes |-> 0,        \* relation data writes
     refused |-> {},      \* relations whose write raised ModelError
     applied_to |-> {},   \* identities client.apply was called for
     denied |-> {},       \* identities whose client.apply was answered 403
     report |-> NoReport, \* the analysis an action put in its results
     failed |-> FALSE,    \* whether event.fail was called
     conflicts |-> 0,     \* conflicting identities the analysis reported
     hasher |-> 0,        \* the hash evaluate_manifests returned
     result |-> "",       \* failure detail, action result
     err |-> "none"]      \* "none" | "reconciler" (ReconcilerError) |
                          \* "client" (ManifestClientError) | "crash"

Enter(c, phase) == [c EXCEPT !.phases = Append(@, phase)]

\* status.add followed by raise status.ReconcilerError
Raise(c, st) == [c EXCEPT !.added = Append(@, st), !.err = "reconciler"]

\* an exception no handler catches: the hook fails
Crash(c) == [c EXCEPT !.err = "crash"]

\* the fault a handler meets, if any: the at-th apply or delete call fails
NoFault == [at |-> 0, kind |-> "none"]
Faults ==
    {NoFault} \cup
    (IF faults < MaxFaults
     THEN [at : 1..MaxFaultAt, kind : {"error", "forbidden"}]
     ELSE {})

----------------------------------------------------------------------------
(* The cluster client and ops.manifests, as the charm uses them *)

\* Manifests.apply_resources: client.apply on each resource in turn; the first
\* failing call raises ManifestClientError and ends the loop
ApplyFails(rs, f) == f.kind \in {"error", "forbidden"} /\ f.at \in 1..Len(rs)

apply_resources(c, rs, f) ==
    LET calls == IF ApplyFails(rs, f) THEN f.at ELSE Len(rs)
        done == {rs[i] : i \in 1..(IF ApplyFails(rs, f) THEN f.at - 1 ELSE Len(rs))}
    IN  [c EXCEPT !.live = [id \in Identities |-> IF id \in done THEN "charm" ELSE @[id]],
                  !.applies = @ + calls,
                  !.applied_to = @ \cup {rs[i] : i \in 1..calls},
                  !.denied = IF ApplyFails(rs, f) /\ f.kind = "forbidden"
                             THEN @ \cup {rs[f.at]} ELSE @,
                  !.faults = IF ApplyFails(rs, f) THEN @ + 1 ELSE @,
                  !.err = IF ApplyFails(rs, f) THEN "client" ELSE @,
                  !.result = IF ApplyFails(rs, f)
                             THEN "Failed Applying " \o IdStr(rs[f.at]) ELSE @]

\* Manifests.delete_resources with ignore_not_found and ignore_unauthorized
\* both given (tolerant) or neither: client.delete by identity on each
\* resource in turn.  A not-found answer (the object is absent) and the
\* answer of a cluster that refuses the caller (forbidden) are passed over
\* when tolerant; any other failure raises ManifestClientError and ends the
\* loop
DeleteRefused(rs, f) == f.at \in 1..Len(rs) /\ f.kind \in {"error", "forbidden"}

\* what the cluster answers to the i-th client.delete
DeleteAnswer(c, rs, f, i) ==
    IF i = f.at /\ f.kind \in {"error", "forbidden"} THEN f.kind
    ELSE IF c.live[rs[i]] = "none" THEN "not_found"
    ELSE "ok"

RECURSIVE FirstFailure(_, _, _, _, _)
FirstFailure(c, rs, f, tolerant, i) ==
    IF i > Len(rs) THEN 0
    ELSE IF \/ (i = f.at /\ f.kind = "error")
            \/ (i = f.at /\ f.kind = "forbidden" /\ ~tolerant)
            \/ (i # f.at /\ c.live[rs[i]] = "none" /\ ~tolerant)
         THEN i
         ELSE FirstFailure(c, rs, f, tolerant, i + 1)

delete_resources(c, rs, f, tolerant) ==
    LET stop == FirstFailure(c, rs, f, tolerant, 1)
        calls == 1..(IF stop > 0 THEN stop ELSE Len(rs))
        issued == {rs[i] : i \in calls}
        refused == IF DeleteRefused(rs, f) THEN {rs[f.at]} ELSE {}
        gone == issued \ refused
    IN  [c EXCEPT !.live = [id \in Identities |-> IF id \in gone THEN "none" ELSE @[id]],
                  !.deletes = @ \cup {[id |-> rs[i], owner |-> c.live[rs[i]],
                                       answer |-> DeleteAnswer(c, rs, f, i)] :
                                          i \in calls},
                  !.faults = IF refused \cap issued # {} THEN @ + 1 ELSE @,
                  !.err = IF stop > 0 THEN "client" ELSE @]

\* a variant that passes over no answer
delete_manifests_strict(c, cfg, f, tolerant) ==
    delete_resources(c, resources(cfg), f, FALSE)

\* Manifests.delete_manifests: the rendered resources, by identity
delete_manifests(c, cfg, f, tolerant) == delete_resources(c, resources(cfg), f, tolerant)

\* Manifests.apply_manifests: the rendered resources
apply_manifests(c, cfg, f) == apply_resources(c, resources(cfg), f)

\* a variant that takes every desired identity without the label for a
\* conflict, live or not
analyze_unlabelled(l, cfg) ==
    LET expected == Range(resources(cfg))
        installed == {id \in expected : l[id] # "none"}
        labelled == {id \in Identities : l[id] = "charm"}
    IN  [manifest |-> "coredns",
         conflicting |-> expected \ labelled,
         correct |-> installed \cap labelled,
         missing |-> expected \ installed,
         extra |-> labelled \ expected]

\* ResourceAnalysis of the one manifest: desired identities are looked up by
\* identity, labelled objects are listed by this charm's label
analyze(l, cfg) ==
    LET expected == Range(resources(cfg))
        installed == {id \in expected : l[id] # "none"}
        labelled == {id \in Identities : l[id] = "charm"}
    IN  [manifest |-> "coredns",
         conflicting |-> installed \ labelled,
         correct |-> installed \cap labelled,
         missing |-> expected \ installed,
         extra |-> labelled \ expected]

\* Collector.analyze_resources with empty filters: one analysis per manifest
analyze_resources(l, cfg) == <<analyze(l, cfg)>>

\* Collector.unready: installed resources of the manifest with a condition
\* that is not True
unready(c, cfg) ==
    LET rs == resources(cfg)
        bad == SelectSeq(rs, LAMBDA id :
                   id.kind = "Deployment" /\ c.live[id] # "none" /\ ~ready)
    IN  [i \in 1..Len(bad) |-> "coredns: " \o IdStr(bad[i]) \o " is not Ready"]

RECURSIVE Join(_, _)
Join(sep, strs) ==
    IF Len(strs) = 0 THEN ""
    ELSE IF Len(strs) = 1 THEN strs[1]
    ELSE strs[1] \o sep \o Join(sep, Tail(strs))

ClusterIP(id) == "10.152.183." \o (IF id.namespace = "kube-system" THEN "10" ELSE "20")

\* CoreDNSManifests.get_service_address
get_service_address(c, cfg) ==
    LET ns == model_formatter(cfg["coredns_namespace"], ModelName)
        svc == [kind |-> "Service", namespace |-> ns, name |-> SERVICE_NAME]
    IN  IF svc \in Identities /\ c.live[svc] # "none" /\ address
        THEN ClusterIP(svc)
        ELSE ""

----------------------------------------------------------------------------
(* charm.py: the phases of a reconcile pass *)

SHORT_VERSION == "v1.13.1"
LONG_VERSION == "Versions: coredns=v1.13.1"

\* the relation whose write raises ModelError, if any
WriteFails(f) == IF f.kind = "model_error" THEN {f.at} \cap Relations ELSE {}

\* a variant that writes the default domain
provide_kube_dns_default_domain(c, cluster_address, f) ==
    [c EXCEPT !.rel = [r \in Relations |->
                         IF r \in WriteFails(f) THEN @[r]
                         ELSE ("domain" :> DomainValue)
                              @@ ("sdn-ip" :> cluster_address)
                              @@ ("port" :> "53")],
              !.writes = @ + Cardinality(Relations),
              !.refused = @ \cup WriteFails(f),
              !.faults = IF WriteFails(f) # {} THEN @ + 1 ELSE @]

\* a variant in which the first ModelError ends the loop
provide_kube_dns_abort(c, cluster_address, f) ==
    [c EXCEPT !.rel = [r \in Relations |->
                         IF \E q \in WriteFails(f) : q <= r THEN @[r]
                         ELSE ("domain" :> config.domain)
                              @@ ("sdn-ip" :> cluster_address)
                              @@ ("port" :> "53")],
              !.writes = @ + Cardinality({r \in Relations :
                                            \A q \in WriteFails(f) : r <= q}),
              !.refused = @ \cup WriteFails(f),
              !.faults = IF WriteFails(f) # {} THEN @ + 1 ELSE @]

\* CoreDNSCharm._provide_kube_dns: the update of each relation in turn; a
\* ModelError is logged and the loop goes on
provide_kube_dns(c, cluster_address, f) ==
    [c EXCEPT !.rel = [r \in Relations |->
                         IF r \in WriteFails(f) THEN @[r]
                         ELSE ("domain" :> config.domain)
                              @@ ("sdn-ip" :> cluster_address)
                              @@ ("port" :> "53")],
              !.writes = @ + Cardinality(Relations),
              !.refused = @ \cup WriteFails(f),
              !.faults = IF WriteFails(f) # {} THEN @ + 1 ELSE @]

\* a variant that looks at the address before the unready resources
update_status_address_first(c0, f) ==
    LET c == Enter(c0, "status")
        cfg == Config(config)
    IN  IF "coredns_namespace" \notin DOMAIN cfg
        THEN Crash(c)
        ELSE LET addr == get_service_address(c, cfg)
                 c1 == provide_kube_dns(c, addr, f)
             IN  IF ~Renderable(cfg)
                 THEN Crash(c1)
                 ELSE IF addr = ""
                 THEN Raise(c1, Status("waiting", "Waiting for DNS service address"))
                 ELSE IF Len(unready(c1, cfg)) > 0
                 THEN Raise(c1, Status("waiting", Join(", ", unready(c1, cfg))))
                 ELSE [c1 EXCEPT !.version = SHORT_VERSION,
                                 !.app = IF leader THEN Status("active", LONG_VERSION)
                                         ELSE @]

\* CoreDNSCharm._update_status
update_status(c0, f) ==
    LET c == Enter(c0, "status")
        cfg == Config(config)
    IN  IF "coredns_namespace" \notin DOMAIN cfg
        THEN Crash(c)    \* get_service_address: KeyError
        ELSE LET addr == get_service_address(c, cfg)
                 c1 == provide_kube_dns(c, addr, f)
             IN  IF ~Renderable(cfg)
                 THEN Crash(c1)    \* collector.unready renders: KeyError
                 ELSE IF Len(unready(c1, cfg)) > 0
                 THEN Raise(c1, Status("waiting", Join(", ", unready(c1, cfg))))
                 ELSE IF addr = ""
                 THEN Raise(c1, Status("waiting", "Waiting for DNS service address"))
                 ELSE [c1 EXCEPT !.version = SHORT_VERSION,
                                 !.app = IF leader THEN Status("active", LONG_VERSION)
                                         ELSE @]

\* a variant that reports a missing option as Waiting
evaluate_manifests_waiting(c0) ==
    LET c == [Enter(c0, "evaluate") EXCEPT
                 !.status = Status("maintenance", "Evaluating CoreDNS")]
        evaluation == evaluate(Config(config))
    IN  IF evaluation # ""
        THEN Raise(c, Status("waiting", evaluation))
        ELSE [c EXCEPT !.hasher = hash(Config(config))]

\* CoreDNSCharm.evaluate_manifests: the hash is left in c.hasher
evaluate_manifests(c0) ==
    LET c == [Enter(c0, "evaluate") EXCEPT
                 !.status = Status("maintenance", "Evaluating CoreDNS")]
        evaluation == evaluate(Config(config))
    IN  IF evaluation # ""
        THEN Raise(c, Status("blocked", evaluation))
        ELSE [c EXCEPT !.hasher = hash(Config(config))]

RECURSIVE SumConflicting(_)
SumConflicting(analyses) ==
    IF Len(analyses) = 0 THEN 0
    ELSE Cardinality(Head(analyses).conflicting) + SumConflicting(Tail(analyses))

\* a variant that always writes the plural
CollisionMessage_plural(count) ==
    ToString(count) \o " Kubernetes resource collisions (action: list-resources)"

CollisionMessage(count) ==
    ToString(count) \o " Kubernetes resource collision"
    \o (IF count # 1 THEN "s" ELSE "") \o " (action: list-resources)"

\* CoreDNSCharm.prevent_collisions
prevent_collisions(c0) ==
    LET c == Enter(c0, "collisions")
    IN  IF leader
        THEN LET c1 == [Enter(c, "analyze") EXCEPT
                           !.status =
                               Status("maintenance", "Detecting manifest collisions")]
                 analyses == analyze_resources(c1.live, Config(config))
                 count == SumConflicting(analyses)
             IN  IF count > 0
                 THEN Raise([c1 EXCEPT !.conflicts = count],
                            Status("blocked", CollisionMessage(count)))
                 ELSE c1
        ELSE c

\* a variant without the comparison of hashes: every pass applies
install_manifests_always(c0, config_hash, f) ==
    LET c == Enter(c0, "install")
        c1 == IF leader
              THEN apply_manifests(
                       [Enter(c, "apply") EXCEPT
                           !.status = Status("maintenance", "Deploying CoreDNS"),
                           !.version = ""],
                       Config(config), f)
              ELSE c
    IN  IF c1.err = "client"
        THEN Raise(c1, Status("waiting", c1.result))
        ELSE [c1 EXCEPT !.stored.config_hash = config_hash]

\* a variant that stores the hash before it applies
install_manifests_store_first(c0, config_hash, f) ==
    LET c == Enter(c0, "install")
    IN  IF c.stored.config_hash = config_hash
        THEN c
        ELSE LET c1 == IF leader
                       THEN apply_manifests(
                                [Enter(c, "apply") EXCEPT
                                    !.status = Status("maintenance", "Deploying CoreDNS"),
                                    !.version = "",
                                    !.stored.config_hash = config_hash],
                                Config(config), f)
                       ELSE [c EXCEPT !.stored.config_hash = config_hash]
             IN  IF c1.err = "client"
                 THEN Raise(c1, Status("waiting", c1.result))
                 ELSE c1

\* a variant that applies and does not store the hash
install_manifests_unstored(c0, config_hash, f) ==
    LET c == Enter(c0, "install")
    IN  IF c.stored.config_hash = config_hash
        THEN c
        ELSE LET c1 == IF leader
                       THEN apply_manifests(
                                [Enter(c, "apply") EXCEPT
                                    !.status = Status("maintenance", "Deploying CoreDNS"),
                                    !.version = ""],
                                Config(config), f)
                       ELSE c
             IN  IF c1.err = "client"
                 THEN Raise(c1, Status("waiting", c1.result))
                 ELSE c1

\* a variant in which only the leader stores the hash
install_manifests_leader_stores(c0, config_hash, f) ==
    LET c == Enter(c0, "install")
    IN  IF c.stored.config_hash = config_hash
        THEN c
        ELSE IF leader
        THEN LET c1 == apply_manifests(
                           [Enter(c, "apply") EXCEPT
                               !.status = Status("maintenance", "Deploying CoreDNS"),
                               !.version = ""],
                           Config(config), f)
             IN  IF c1.err = "client"
                 THEN Raise(c1, Status("waiting", c1.result))
                 ELSE [c1 EXCEPT !.stored.config_hash = config_hash]
        ELSE c

\* CoreDNSCharm.install_manifests
install_manifests(c0, config_hash, f) ==
    LET c == Enter(c0, "install")
    IN  IF c.stored.config_hash = config_hash
        THEN c
        ELSE LET c1 == IF leader
                       THEN apply_manifests(
                                [Enter(c, "apply") EXCEPT
                                    !.status = Status("maintenance", "Deploying CoreDNS"),
                                    !.version = ""],
                                Config(config), f)
                       ELSE c
             IN  IF c1.err = "client"
                 THEN Raise(c1, Status("waiting", c1.result))
                 ELSE [c1 EXCEPT !.stored.config_hash = config_hash]

\* CoreDNSCharm._purge_manifest, under status.on_error: any exception adds
\* Waiting("Manifest purge failed.") and becomes a ReconcilerError
purge_manifest(c, f) ==
    LET cfg == Config(config)
        c1 == IF Renderable(cfg) THEN delete_manifests(c, cfg, f, TRUE) ELSE Crash(c)
    IN  IF c1.err # "none"
        THEN Raise(c1, Status("waiting", "Manifest purge failed."))
        ELSE c1

\* a variant that puts every stored field back to its default
purge_all_manifests_reset(c0, f) ==
    LET c == [Enter(c0, "purge") EXCEPT
                 !.status = Status("maintenance", "Removing Kubernetes resources")]
        c1 == purge_manifest(c, f)
    IN  IF c1.err # "none" THEN c1
        ELSE [c1 EXCEPT !.stored = [config_hash |-> 0, deployed |-> FALSE,
                                    destroying |-> FALSE]]

\* a variant that resets the hash before the manifests are purged
purge_all_manifests_hash_first(c0, f) ==
    LET c == [Enter(c0, "purge") EXCEPT
                 !.status = Status("maintenance", "Removing Kubernetes resources"),
                 !.stored.config_hash = 0]
    IN  purge_manifest(c, f)

\* CoreDNSCharm._purge_all_manifests
purge_all_manifests(c0, f) ==
    LET c == [Enter(c0, "purge") EXCEPT
                 !.status = Status("maintenance", "Removing Kubernetes resources")]
        c1 == purge_manifest(c, f)
    IN  IF c1.err # "none" THEN c1 ELSE [c1 EXCEPT !.stored.config_hash = 0]

TeardownEvents == {"stop", "remove"}

\* a variant that looks at the event only
destroying_event_only(st, event) ==
    IF event \in TeardownEvents
    THEN [result |-> TRUE, stored |-> [st EXCEPT !.destroying = TRUE]]
    ELSE [result |-> FALSE, stored |-> st]

\* CoreDNSCharm._destroying: the answer and the stored state it leaves
destroying(st, event) ==
    IF st.destroying
    THEN [result |-> TRUE, stored |-> st]
    ELSE IF event \in TeardownEvents
    THEN [result |-> TRUE, stored |-> [st EXCEPT !.destroying = TRUE]]
    ELSE [result |-> FALSE, stored |-> st]

\* a variant that installs before it looks for collisions
reconcile_install_first(c0, event, f) ==
    LET d == destroying(c0.stored, event)
        c == [c0 EXCEPT !.stored = d.stored]
    IN  IF d.result
        THEN LET c1 == IF leader THEN purge_all_manifests(c, f) ELSE c
             IN  IF c1.err # "none" THEN c1
                 ELSE [c1 EXCEPT !.added = Append(@, Status("blocked", "Removing CoreDNS"))]
        ELSE LET c1 == evaluate_manifests(c)
             IN  IF c1.err # "none" THEN c1
                 ELSE LET c2 == install_manifests(c1, c1.hasher, f)
                      IN  IF c2.err # "none" THEN c2
                          ELSE LET c3 == prevent_collisions(c2)
                               IN  IF c3.err # "none" THEN c3
                                   ELSE update_status(c3, f)

\* a variant that looks for collisions only when the hash differs from the
\* stored one
reconcile_compare_first(c0, event, f) ==
    LET d == destroying(c0.stored, event)
        c == [c0 EXCEPT !.stored = d.stored]
    IN  IF d.result
        THEN LET c1 == IF leader THEN purge_all_manifests(c, f) ELSE c
             IN  IF c1.err # "none" THEN c1
                 ELSE [c1 EXCEPT !.added = Append(@, Status("blocked", "Removing CoreDNS"))]
        ELSE LET c1 == evaluate_manifests(c)
             IN  IF c1.err # "none" THEN c1
                 ELSE LET c2 == IF c1.stored.config_hash = c1.hasher
                                THEN c1 ELSE prevent_collisions(c1)
                      IN  IF c2.err # "none" THEN c2
                          ELSE LET c3 == install_manifests(c2, c1.hasher, f)
                               IN  IF c3.err # "none" THEN c3
                                   ELSE update_status(c3, f)

\* CoreDNSCharm.reconcile
reconcile(c0, event, f) ==
    LET d == destroying(c0.stored, event)
        c == [c0 EXCEPT !.stored = d.stored]
    IN  IF d.result
        THEN LET c1 == IF leader THEN purge_all_manifests(c, f) ELSE c
             IN  IF c1.err # "none" THEN c1
                 ELSE [c1 EXCEPT !.added = Append(@, Status("blocked", "Removing CoreDNS"))]
        ELSE LET c1 == evaluate_manifests(c)
             IN  IF c1.err # "none" THEN c1
                 ELSE LET c2 == prevent_collisions(c1)
                      IN  IF c2.err # "none" THEN c2
                          ELSE LET c3 == install_manifests(c2, c1.hasher, f)
                               IN  IF c3.err # "none" THEN c3
                                   ELSE update_status(c3, f)

----------------------------------------------------------------------------
(* The handlers as the framework runs them *)

Priority(st) ==
    CASE st.name = "blocked" -> 4
      [] st.name = "waiting" -> 3
      [] st.name = "maintenance" -> 2
      [] OTHER -> 1

\* status.context on exit: the most severe status added, else exit_status
ContextStatus(c, exit_status) ==
    IF Len(c.added) = 0 THEN exit_status
    ELSE LET i == CHOOSE i \in 1..Len(c.added) :
                      \A j \in 1..Len(c.added) :
                          Priority(c.added[i]) > Priority(c.added[j])
                          \/ (Priority(c.added[i]) = Priority(c.added[j]) /\ i <= j)
         IN  c.added[i]

HookFailed == Status("error", "hook failed")

\* what a handler did and published, for the history variable.  A failed
\* hook publishes nothing but its failure
Record(handler, event, c, final) ==
    [handler |-> handler, event |-> event,
     teardown |-> handler = "reconcile"
                  /\ (stored.destroying \/ event \in TeardownEvents),
     phases |-> c.phases, applies |-> c.applies, deletes |-> c.deletes,
     writes |-> c.writes, refused |-> c.refused, applied_to |-> c.applied_to,
     denied |-> c.denied,
     report |-> c.report, failed |-> c.failed, conflicts |-> c.conflicts, err |-> c.err,
     before |-> stored, retried |-> retry, unblocked |-> blocked, hasher |-> c.hasher, result |-> c.result,
     status |-> IF c.err = "crash" THEN HookFailed ELSE final,
     version |-> IF c.err = "crash" THEN "unset" ELSE c.version,
     app |-> IF c.err = "crash" THEN Unset ELSE c.app,
     rel |-> IF c.err = "crash" THEN [r \in Relations |-> NoData] ELSE c.rel]

Idle == Record("none", "none", Ctx, Unset)

\* the effects of a handler that ended in context c.  A failed hook does
\* not commit stored state; calls already made against the cluster stay made
Commit(c) ==
    /\ live' = c.live
    /\ faults' = c.faults
    /\ stored' = IF c.err = "crash" THEN stored ELSE c.stored
    /\ UNCHANGED <<config, leader, address, ready, changes, manifest>>

HookEvents == {"config_changed", "update_status", "stop", "remove"}

\* Reconciler.reconcile, observing every hook event: an update-status event
\* is passed over once reconciled; otherwise reconciled is cleared, the
\* reconcile function runs in a status context whose exit status is
\* Active("Ready"), and reconciled is set when it returns without error
Reconcile(event, f) ==
    /\ pending = "none"
    /\ IF event = "update_status" /\ reconciled
       THEN /\ Commit(Ctx)
            /\ pending' = "on_update_status"
            /\ last' = Record("skip", event, Ctx, Unset)
            /\ UNCHANGED <<reconciled, applied, retry, blocked>>
       ELSE \E c \in {reconcile(Ctx, event, f)} :
                /\ Commit(c)
                /\ pending' = IF event = "update_status" /\ c.err # "crash"
                              THEN "on_update_status" ELSE "none"
                /\ reconciled' = IF c.err = "crash" THEN reconciled ELSE c.err = "none"
                /\ last' = Record("reconcile", event, c,
                                  ContextStatus(c, Status("active", "Ready")))
                /\ applied' = IF "apply" \in Range(c.phases) /\ c.result = ""
                              THEN applied \cup {c.hasher} ELSE applied
                /\ retry' = IF "apply" \in Range(c.phases) /\ c.result # ""
                            THEN c.hasher ELSE 0
                /\ blocked' = (c.phases = <<"evaluate">> /\ c.err = "reconciler")

\* a variant that does not look at the reconciled flag
UpdateStatus_unguarded(f) ==
    /\ pending = "on_update_status"
    /\ pending' = "none"
    /\ UNCHANGED <<reconciled, applied, retry, blocked>>
    /\ \E c \in {update_status(Ctx, f)} :
           /\ Commit(c)
           /\ last' = Record("on_update_status", "update_status", c,
                             ContextStatus(c, Status("active", "")))

\* CoreDNSCharm._on_update_status, the second observer of update-status
UpdateStatus(f) ==
    /\ pending = "on_update_status"
    /\ pending' = "none"
    /\ UNCHANGED <<reconciled, applied, retry, blocked>>
    /\ IF ~reconciled
       THEN /\ Commit(Ctx)
            /\ last' = Record("on_update_status", "update_status", Ctx, Unset)
       ELSE \E c \in {update_status(Ctx, f)} :
                /\ Commit(c)
                /\ last' = Record("on_update_status", "update_status", c,
                                  ContextStatus(c, Status("active", "")))

OnUpdateStatus == UpdateStatus(NoFault)

----------------------------------------------------------------------------
(* The operator actions: Collector, through charm.py *)

RECURSIVE SetToSeq(_)
SetToSeq(S) ==
    IF S = {} THEN <<>>
    ELSE LET x == CHOOSE x \in S : TRUE IN <<x>> \o SetToSeq(S \ {x})

IdentitySeq == SetToSeq(Identities)

\* the members of S in a fixed order
Ordered(S) == SelectSeq(IdentitySeq, LAMBDA id : id \in S)

\* the classes of an analysis as the action results carry them
Report(a) ==
    [conflicting |-> a.conflicting, correct |-> a.correct,
     missing |-> a.missing, extra |-> a.extra]

\* Collector.list_resources with empty filters: the analysis of the one
\* manifest, put in the results of the action
collector_list_resources(c0) ==
    LET c == Enter(c0, "analyze")
    IN  IF ~Renderable(Config(config)) THEN Crash(c)
        ELSE [c EXCEPT !.report = Report(analyze_resources(c.live, Config(config))[1])]

\* CoreDNSCharm._list_resources
list_resources(c0) == collector_list_resources(c0)

\* CoreDNSCharm._scrub_resources: Collector.scrub_resources deletes the extra
\* resources of each analysis; a ManifestClientError is not caught
scrub_resources(c0, f) ==
    LET c == collector_list_resources(c0)
    IN  IF c.err = "crash" THEN c
        ELSE LET c1 == delete_resources(c, Ordered(c.report.extra), f, FALSE)
             IN  IF c1.err = "client" THEN Crash(c1) ELSE c1

\* a variant that applies over the conflicting resources too
sync_resources_force(c0, f) ==
    LET c == collector_list_resources(c0)
    IN  IF c.err = "crash" THEN c
        ELSE LET c1 == apply_resources(
                           c, Ordered(c.report.missing \cup c.report.conflicting), f)
             IN  IF c1.err = "client"
                 THEN [c1 EXCEPT !.err = "none",
                                 !.result = "Failed to sync missing resources: " \o @]
                 ELSE [c1 EXCEPT !.stored.deployed = TRUE]

\* a variant that reports the analysis taken after the apply calls
sync_resources_report_after(c0, f) ==
    LET c == collector_list_resources(c0)
    IN  IF c.err = "crash" THEN c
        ELSE LET c1 == apply_resources(c, Ordered(c.report.missing), f)
                 c2 == [c1 EXCEPT !.report =
                            Report(analyze_resources(c1.live, Config(config))[1])]
             IN  IF c2.err = "client"
                 THEN [c2 EXCEPT !.err = "none",
                                 !.result = "Failed to sync missing resources: " \o @]
                 ELSE [c2 EXCEPT !.stored.deployed = TRUE]

\* CoreDNSCharm._sync_resources: Collector.apply_missing_resources applies
\* the missing resources of each analysis; on ManifestClientError the
\* message goes into the results with set_results, event.fail is not called
sync_resources(c0, f) ==
    LET c == collector_list_resources(c0)
    IN  IF c.err = "crash" THEN c
        ELSE LET c1 == apply_resources(c, Ordered(c.report.missing), f)
             IN  IF c1.err = "client"
                 THEN [c1 EXCEPT !.err = "none",
                                 !.result = "Failed to sync missing resources: " \o @]
                 ELSE [c1 EXCEPT !.stored.deployed = TRUE]

\* an action event: no hook observer runs, no status context is entered
Action(name, c) ==
    /\ pending = "none"
    /\ Commit(c)
    /\ last' = Record(name, name, c, Unset)
    /\ UNCHANGED <<reconciled, pending, applied, retry, blocked>>

ListResources == \E c \in {list_resources(Ctx)} : Action("list_resources", c)

ScrubResources ==
    \E f \in Faults : \E c \in {scrub_resources(Ctx, f)} : Action("scrub_resources", c)

SyncResources ==
    \E f \in Faults : \E c \in {sync_resources(Ctx, f)} : Action("sync_resources", c)

----------------------------------------------------------------------------
(* The environment *)

Quiet ==
    /\ pending = "none"
    /\ changes < MaxChanges
    /\ changes' = changes + 1
    /\ last' = Idle
    /\ UNCHANGED <<stored, reconciled, faults, pending, applied, retry, blocked,
                   address, ready, manifest>>

\* juju config, one option at a time
ConfigChange ==
    /\ Quiet
    /\ \E raw \in RawConfigs :
           /\ Cardinality({k \in DOMAIN raw : raw[k] # config[k]}) = 1
           /\ config' = raw
    /\ UNCHANGED <<leader, live>>

\* leadership moves to or away from this unit
LeaderChange ==
    /\ Quiet
    /\ leader' = ~leader
    /\ UNCHANGED <<config, live>>

\* the kinds of object other actors create
ForeignKinds == {"ConfigMap", "Service"}

\* another actor creates an object, without this charm's label
ForeignCreate ==
    /\ Quiet
    /\ Cardinality({id \in Identities : live[id] = "other"}) < MaxForeign
    /\ \E id \in Identities :
           /\ id.kind \in ForeignKinds
           /\ live[id] = "none"
           /\ live' = [live EXCEPT ![id] = "other"]
    /\ UNCHANGED <<config, leader>>

----------------------------------------------------------------------------
(* The specification *)

\* CoreDNSCharm.__init__: the stored defaults
Init ==
    /\ config \in RawConfigs
    /\ leader \in BOOLEAN
    /\ live = [id \in Identities |-> "none"]
    /\ address \in BOOLEAN
    /\ ready \in BOOLEAN
    /\ stored = [config_hash |-> 0, deployed |-> FALSE, destroying |-> FALSE]
    /\ reconciled = FALSE
    /\ faults = 0
    /\ changes = 0
    /\ pending = "none"
    /\ applied = {}
    /\ retry = 0
    /\ blocked = FALSE
    /\ manifest = Unread(Model, ConfigOrder)
    /\ last = Idle

Hook == \E event \in HookEvents : \E f \in Faults : Reconcile(event, f)

Next ==
    \/ Hook
    \/ OnUpdateStatus
    \/ ListResources
    \/ ScrubResources
    \/ SyncResources
    \/ ConfigChange
    \/ LeaderChange
    \/ ForeignCreate

Spec == Init /\ [][Next]_vars

----------------------------------------------------------------------------
(* Status aggregation and the relation data under a changing cluster: the  *)
(* address, the readiness and the domain option change, relation writes    *)
(* may fail                                                                *)

\* the relation write a handler finds refused, if any
RelationFaults ==
    {NoFault} \cup
    (IF faults < MaxFaults THEN [at : Relations, kind : {"model_error"}] ELSE {})

Between ==
    /\ pending = "none"
    /\ last' = Idle
    /\ UNCHANGED <<stored, reconciled, faults, changes, pending, applied, retry,
                   blocked, live, manifest>>

\* the cluster gives the Service its address, or takes it away
AddressChange ==
    /\ Between
    /\ address' = ~address
    /\ UNCHANGED <<config, leader, ready>>

\* the Deployment becomes ready, or stops being ready
ReadyChange ==
    /\ Between
    /\ ready' = ~ready
    /\ UNCHANGED <<config, leader, address>>

\* juju config domain=...
DomainChange ==
    /\ Between
    /\ \E d \in Range(DomainValues) \ {config.domain} :
           config' = [config EXCEPT !.domain = d]
    /\ UNCHANGED <<leader, address, ready>>

\* leadership moves, with no bound on how often
LeaderMoves ==
    /\ Between
    /\ leader' = ~leader
    /\ UNCHANGED <<config, address, ready>>

\* another actor puts its own object in the place of one this charm
\* applied: the object is live and no longer carries the label
ForeignReplace ==
    /\ pending = "none"
    /\ last' = Idle
    /\ Cardinality({id \in Identities : live[id] = "other"}) < MaxForeign
    /\ \E id \in Identities :
           /\ id.kind \in ForeignKinds
           /\ live[id] = "charm"
           /\ live' = [live EXCEPT ![id] = "other"]
    /\ UNCHANGED <<config, leader, address, ready, stored, reconciled, faults,
                   changes, pending, applied, retry, blocked, manifest>>

StatusHook ==
    \E event \in {"config_changed", "update_status"} :
        \E f \in RelationFaults : Reconcile(event, f)

StatusUpdate == \E f \in RelationFaults : UpdateStatus(f)

InitStatus ==
    /\ config \in CompleteConfigs
    /\ leader \in BOOLEAN
    /\ live = [id \in Identities |-> "none"]
    /\ address = FALSE
    /\ ready = FALSE
    /\ stored = [config_hash |-> 0, deployed |-> FALSE, destroying |-> FALSE]
    /\ reconciled = FALSE
    /\ faults = 0
    /\ changes = 0
    /\ pending = "none"
    /\ applied = {}
    /\ retry = 0
    /\ blocked = FALSE
    /\ manifest = Unread(Model, ConfigOrder)
    /\ last = Idle

NextStatus ==
    \/ StatusHook
    \/ StatusUpdate
    \/ AddressChange
    \/ ReadyChange
    \/ DomainChange
    \/ LeaderMoves
    \/ ForeignReplace

SpecStatus == InitStatus /\ [][NextStatus]_vars

----------------------------------------------------------------------------
(* The analysis over every cluster: any object may be absent, the charm's  *)
(* or another actor's when list-resources runs                             *)

InitAnalysis ==
    /\ config \in {r \in RawConfigs : Renderable(Config(r))}
    /\ leader = FALSE
    /\ live \in [Identities -> {"none", "charm", "other"}]
    /\ address = FALSE
    /\ ready = FALSE
    /\ stored = [config_hash |-> 0, deployed |-> FALSE, destroying |-> FALSE]
    /\ reconciled = FALSE
    /\ faults = 0
    /\ changes = 0
    /\ pending = "none"
    /\ applied = {}
    /\ retry = 0
    /\ blocked = FALSE
    /\ manifest = Unread(Model, ConfigOrder)
    /\ last = Idle

NextAnalysis == ListResources

SpecAnalysis == InitAnalysis /\ [][NextAnalysis]_vars

----------------------------------------------------------------------------
(* A fresh leader: the cluster starts empty, the Service gets its address   *)
(* and the Deployment becomes ready at some time, and both then stay so.    *)
(* Juju keeps delivering hook events, update-status among them, and runs    *)
(* every observer of an event it delivers                                   *)

\* the cluster assigns the clusterIP
AddressAssigned ==
    /\ Between
    /\ ~address
    /\ address' = TRUE
    /\ UNCHANGED <<config, leader, ready>>

\* the pods of the Deployment come up
BecomesReady ==
    /\ Between
    /\ ~ready
    /\ ready' = TRUE
    /\ UNCHANGED <<config, leader, address>>

FreshHook ==
    \E event \in {"config_changed", "update_status"} :
        \E f \in Faults : Reconcile(event, f)

InitFresh ==
    /\ config \in CompleteConfigs
    /\ leader = TRUE
    /\ live = [id \in Identities |-> "none"]
    /\ address = FALSE
    /\ ready \in BOOLEAN
    /\ stored = [config_hash |-> 0, deployed |-> FALSE, destroying |-> FALSE]
    /\ reconciled = FALSE
    /\ faults = 0
    /\ changes = 0
    /\ pending = "none"
    /\ applied = {}
    /\ retry = 0
    /\ blocked = FALSE
    /\ manifest = Unread(Model, ConfigOrder)
    /\ last = Idle

NextFresh ==
    \/ FreshHook
    \/ OnUpdateStatus
    \/ AddressAssigned
    \/ BecomesReady

SpecFresh ==
    /\ InitFresh
    /\ [][NextFresh]_vars
    /\ WF_vars(FreshHook)
    /\ WF_vars(OnUpdateStatus)

----------------------------------------------------------------------------
(* The manifest object read on its own, as in test_coredns_manifests.py:   *)
(* the configuration is updated one option at a time and the properties    *)
(* of the object are read in between                                       *)

\* an option that is not in model.config
Absent == "absent"

\* what an option holds in model.config: a value, "" or None, or nothing
Held(k) ==
    IF k = "corefile" THEN {Absent, "", CorefileTemplate}
    ELSE IF k = "coredns_namespace" THEN {Absent} \cup Range(NamespaceValues)
    ELSE IF k = "forward" THEN {Absent, None} \cup Range(ForwardValues)
    ELSE {DomainValue}

\* model.config: the options that hold something
ManifestConfigs ==
    {[k \in {q \in Range(ConfigOrder) : t[q] # Absent} |-> t[k]] :
         t \in {s \in [Range(ConfigOrder) -> UNION {Held(k) : k \in Range(ConfigOrder)}] :
                    \A k \in Range(ConfigOrder) : s[k] \in Held(k)}}

\* another model uuid, cut to 8, and another application name
OtherUuid8 == "7c6d5e4f"
OtherApp == "dns"

\* the models an object is built in: the namespace kube-system may be the
\* model itself
Models ==
    [name : {ModelName, "kube-system"}, uuid : {ModelUuid8, OtherUuid8},
     app : {AppName, OtherApp}]

Reverse(s) == [i \in 1..Len(s) |-> s[Len(s) + 1 - i]]

\* the orders in which model.config iterates
Orders == {ConfigOrder, Reverse(ConfigOrder)}

\* a property of the object is read: the derived configuration is computed
\* from model.config anew, nothing is kept from the read before
Read(name, value) ==
    /\ manifest' = [value EXCEPT !.call = name, !.derived = Config(config),
                                 !.earlier = IF manifest.call = "resources"
                                             THEN manifest.resources ELSE @]
    /\ UNCHANGED <<config, leader, live, address, ready, stored, reconciled, faults,
                   changes, pending, last, applied, retry, blocked>>

Fresh == [Unread(manifest.model, manifest.order) EXCEPT !.earlier = manifest.earlier]

\* manifest.config
ReadConfig == Read("config", Fresh)

\* manifest.hash()
CallHash ==
    Read("hash", [Fresh EXCEPT !.hash = manifest_hash(Config(config),
                                                      DerivedOrder(manifest.order))])

\* manifest.evaluate()
CallEvaluate == Read("evaluate", [Fresh EXCEPT !.evaluation = evaluate(Config(config))])

\* manifest.resources: every manipulation on every upstream resource; one
\* that reads config["coredns_namespace"] or config["corefile"] raises
\* KeyError when the key is not in the derived configuration
ReadResources ==
    Read("resources",
         IF Renderable(Config(config))
         THEN [Fresh EXCEPT
                  !.resources = manifest_resources(Config(config), manifest.model),
                  !.objects = manifest_objects(Config(config), manifest.model),
                  !.corefile = corefile(Config(config))]
         ELSE [Fresh EXCEPT !.raised = TRUE])

\* harness.update_config: one option is set, changed or removed
UpdateConfig ==
    /\ \E raw \in ManifestConfigs :
           /\ Cardinality({k \in Range(ConfigOrder) :
                               Get(raw, k) # Get(config, k)
                               \/ (k \in DOMAIN raw) # (k \in DOMAIN config)}) = 1
           /\ config' = raw
    /\ changes < MaxChanges
    /\ changes' = changes + 1
    /\ UNCHANGED <<leader, live, address, ready, stored, reconciled, faults,
                   pending, last, applied, retry, blocked, manifest>>

\* model.config iterates in another order
Reorder ==
    /\ \E order \in Orders \ {manifest.order} :
           manifest' = [manifest EXCEPT !.order = order]
    /\ changes < MaxChanges
    /\ changes' = changes + 1
    /\ UNCHANGED <<config, leader, live, address, ready, stored, reconciled, faults,
                   pending, last, applied, retry, blocked>>

\* the cluster and the stored state change under the object
Elsewhere ==
    /\ live' = [id \in Identities |->
                   IF id.kind = "Service" /\ live[id] = "none" THEN "other" ELSE "none"]
    /\ stored' = [stored EXCEPT !.deployed = ~@]
    /\ changes < MaxChanges
    /\ changes' = changes + 1
    /\ UNCHANGED <<config, leader, address, ready, reconciled, faults,
                   pending, last, applied, retry, blocked, manifest>>

InitManifest ==
    /\ config \in ManifestConfigs
    /\ leader = FALSE
    /\ live = [id \in Identities |-> "none"]
    /\ address = FALSE
    /\ ready = FALSE
    /\ stored = [config_hash |-> 0, deployed |-> FALSE, destroying |-> FALSE]
    /\ reconciled = FALSE
    /\ faults = 0
    /\ changes = 0
    /\ pending = "none"
    /\ applied = {}
    /\ retry = 0
    /\ blocked = FALSE
    /\ manifest \in {Unread(m, ConfigOrder) : m \in Models}
    /\ last = Idle

NextManifest ==
    \/ ReadConfig
    \/ CallHash
    \/ CallEvaluate
    \/ ReadResources
    \/ UpdateConfig
    \/ Reorder
    \/ Elsewhere

SpecManifest == InitManifest /\ [][NextManifest]_vars

----------------------------------------------------------------------------
(* The properties *)

Phases == Range(last.phases)

\* the last handler was a reconcile pass / a teardown pass / another pass
ReconcilePass == last.handler = "reconcile"
TeardownPass == ReconcilePass /\ last.teardown
NormalPass == ReconcilePass /\ ~last.teardown

\* C1: a reconcile pass whose event is stop or remove, or that starts with
\* destroying set, runs none of evaluate, collision analysis, apply and
\* status aggregation; unless the purge fails it ends
\* Blocked("Removing CoreDNS"), on the leader and on any other unit
C1_TeardownRunsNoPhase ==
    TeardownPass =>
        /\ Phases \cap {"evaluate", "collisions", "analyze", "install",
                        "apply", "status"} = {}
        /\ last.applies = 0
        /\ last.writes = 0
        /\ last.err = "none" => last.status = Status("blocked", "Removing CoreDNS")

\* a pass that finds destroying set, for an event that is neither stop nor
\* remove, on a unit that is not the leader: it ends Blocked
C1_Witness ==
    /\ TeardownPass
    /\ last.event = "config_changed"
    /\ last.before.destroying
    /\ ~leader
    /\ last.status = Status("blocked", "Removing CoreDNS")

\* C2: destroying starts false, becomes true only in a reconcile pass for a
\* stop or remove event, and once true stays true whatever follows
C2_DestroyingIsLatch ==
    /\ ~stored.destroying
    /\ [][/\ stored.destroying => stored'.destroying
          /\ (~stored.destroying /\ stored'.destroying) =>
                 (last'.handler = "reconcile" /\ last'.event \in TeardownEvents)]_vars

\* destroying was set before the leader's pass for another event, which
\* purged, and is still set after it
C2_Witness ==
    /\ stored.destroying
    /\ last.before.destroying
    /\ leader
    /\ ReconcilePass
    /\ last.event = "update_status"
    /\ "purge" \in Phases
    /\ last.err = "none"

\* C3: once destroying is set, no handler issues an apply call, the
\* sync-resources action included
C3_NoApplyAfterTeardown ==
    last.before.destroying => last.applies = 0

\* C4: once destroying is set, no handler writes dns-provider relation data
\* or sets an Active status, and an update-status event does not run status
\* aggregation
C4_NoPublishAfterTeardown ==
    last.before.destroying =>
        /\ last.writes = 0
        /\ last.status.name # "active"
        /\ last.app.name # "active"
        /\ "status" \notin Phases

\* C5: the purge of a teardown pass deletes no live object that lacks this
\* charm's label
C5_PurgeDeletesOnlyLabelled ==
    TeardownPass => \A d \in last.deletes : d.owner # "other"

\* the identities of the configuration held by an object without the label
Conflicting == {id \in Range(resources(Config(config))) : live[id] = "other"}

\* C6: a leader's pass outside teardown whose analysis reports conflicts
\* issues no apply call, leaves config_hash as it was, does not run status
\* aggregation, and ends Blocked with the number N of conflicting
\* identities in the message, "collision" in the singular exactly when N = 1
C6_CollisionBlocks ==
    (NormalPass /\ leader /\ last.conflicts > 0) =>
        /\ last.applies = 0
        /\ stored.config_hash = last.before.config_hash
        /\ "status" \notin Phases
        /\ last.conflicts = Cardinality(Conflicting)
        /\ last.status.name = "blocked"
        /\ last.status.message =
               ToString(last.conflicts) \o " Kubernetes resource collision"
               \o (IF last.conflicts = 1 THEN "" ELSE "s")
               \o " (action: list-resources)"

\* two conflicting identities: the plural
C6_Witness ==
    /\ NormalPass
    /\ leader
    /\ last.conflicts = 2
    /\ last.status =
           Status("blocked", "2 Kubernetes resource collisions (action: list-resources)")

\* a pass outside teardown that finds the hash of its configuration stored
SameHashPass ==
    NormalPass /\ last.hasher # 0 /\ last.before.config_hash = last.hasher

\* C7 as stated: a pass that finds the hash of its configuration stored by
\* the pass before issues no apply call and proceeds to status aggregation
C7_SameHashProceeds ==
    SameHashPass => (last.applies = 0 /\ "status" \in Phases)

\* C7: a pass that finds the hash of its configuration stored issues no
\* apply call and, unless the leader's collision analysis reports a
\* conflict, proceeds to status aggregation
C7_SameHashSkipsApply ==
    SameHashPass =>
        /\ last.applies = 0
        /\ "apply" \notin Phases
        /\ last.conflicts = 0 => "status" \in Phases

\* the leader applied, and its next pass finds the hash stored
C7_Witness ==
    /\ SameHashPass
    /\ leader
    /\ last.hasher \in applied
    /\ "status" \in Phases
    /\ last.applies = 0

\* a pass in which an apply call failed
FailedApplyPass == ReconcilePass /\ "apply" \in Phases /\ last.result # ""

\* a pass outside teardown that follows, with the same configuration, a
\* pass in which an apply call failed
RetryPass == NormalPass /\ last.retried # 0 /\ last.hasher = last.retried

\* what C8 says of the pass in which the apply call failed
C8_FailedApplyStops ==
    FailedApplyPass =>
        /\ last.applies < Len(resources(Config(config)))
        /\ last.status = Status("waiting", last.result)
        /\ stored.config_hash = last.before.config_hash
        /\ "status" \notin Phases

\* C8 as stated: the pass in which an apply call failed stops applying, ends
\* Waiting with the failure detail and leaves config_hash as it was, and the
\* next pass outside teardown with the same configuration applies again
C8_FailedApplyRetried ==
    /\ C8_FailedApplyStops
    /\ RetryPass => "apply" \in Phases

\* C8: the pass in which an apply call failed stops applying, ends Waiting
\* with the failure detail and leaves config_hash as it was, and the next
\* pass outside teardown with the same configuration, run as leader with no
\* collision reported, applies again
C8_FailedApplyRetriedByLeader ==
    /\ C8_FailedApplyStops
    /\ (RetryPass /\ leader /\ last.conflicts = 0) => "apply" \in Phases

\* the leader's pass after a failed apply applies every resource
C8_Witness ==
    /\ RetryPass
    /\ leader
    /\ "apply" \in Phases
    /\ last.result = ""
    /\ last.applies = Len(resources(Config(config)))
    /\ stored.config_hash = last.hasher

\* C9: config_hash is 0 or the hash of a configuration of which this unit
\* completed an apply of every resource without error
C9_HashOnlyOfApplied ==
    stored.config_hash = 0 \/ stored.config_hash \in applied

\* C10: a unit that is not the leader issues no apply and no delete call,
\* whatever it handles
C10_NonLeaderNeverMutates ==
    ~leader => (last.applies = 0 /\ last.deletes = {})

\* a required option is absent or empty
Incomplete == config.corefile = "" \/ config.coredns_namespace = ""

\* C11: a pass outside teardown that finds a required option absent or empty
\* ends Blocked with the message of the evaluation, runs no collision
\* analysis, issues no apply call, runs no status aggregation, and leaves
\* config_hash, deployed and destroying as they were
C11_IncompleteBlocks ==
    (NormalPass /\ Incomplete) =>
        /\ last.status =
               Status("blocked",
                      "Provider manifests waiting for definition of "
                      \o (IF config.corefile = "" THEN "corefile"
                          ELSE "coredns_namespace"))
        /\ last.phases = <<"evaluate">>
        /\ last.applies = 0
        /\ last.deletes = {}
        /\ last.writes = 0
        /\ stored = last.before

\* the leader's pass with a Corefile and without a namespace
C11_Witness ==
    /\ NormalPass
    /\ leader
    /\ config.corefile # ""
    /\ config.coredns_namespace = ""
    /\ last.status =
           Status("blocked",
                  "Provider manifests waiting for definition of coredns_namespace")

\* a pass outside teardown, with a complete configuration, that is the
\* first reconcile pass after one blocked for an incomplete configuration
UnblockedPass == NormalPass /\ last.unblocked /\ ~Incomplete

\* C12: the first reconcile pass outside teardown that sees a complete
\* configuration after a pass blocked for an incomplete one gets past
\* evaluation and goes on to collision analysis and apply as a pass of a
\* fresh instance does: analysis on the leader, install unless a conflict is
\* reported, apply on the leader when the stored hash differs
C12_BlockedPassLeavesNothing ==
    UnblockedPass =>
        /\ last.hasher # 0
        /\ last.hasher = hash(Config(config))
        /\ SubSeq(last.phases, 1, 2) = <<"evaluate", "collisions">>
        /\ leader <=> "analyze" \in Phases
        /\ last.conflicts = 0 <=> "install" \in Phases
        /\ (leader /\ last.conflicts = 0 /\ last.before.config_hash # last.hasher)
               <=> "apply" \in Phases

\* the leader applies in the first pass after the blocked one
C12_Witness ==
    /\ UnblockedPass
    /\ leader
    /\ last.before.config_hash = 0
    /\ "apply" \in Phases
    /\ last.applies = Len(resources(Config(config)))
    /\ stored.config_hash = last.hasher

\* status aggregation ran to its end in the last handler
StatusRan == "status" \in Phases /\ last.err # "crash"

\* the namespace of the configuration
ConfigNs ==
    IF config.coredns_namespace = "{model}" THEN ModelName
    ELSE config.coredns_namespace

\* the live Deployment of the configuration is not ready
DeploymentUnready ==
    /\ ~ready
    /\ \E id \in Identities :
           id.kind = "Deployment" /\ id.namespace = ConfigNs /\ live[id] # "none"

\* the live Service of the configuration has its address
ServiceAddressed ==
    /\ address
    /\ \E id \in Identities :
           id.kind = "Service" /\ id.namespace = ConfigNs /\ live[id] # "none"

\* the status of the last handler is the one the rules give for the cluster
StatusByRule ==
    IF DeploymentUnready
    THEN last.status =
             Status("waiting",
                    "coredns: Deployment/" \o ConfigNs \o "/coredns is not Ready")
    ELSE IF ~ServiceAddressed
    THEN last.status = Status("waiting", "Waiting for DNS service address")
    ELSE last.status.name = "active"

\* C13: status aggregation takes the first rule that matches: Waiting with
\* the unready resources when there are any, whether or not there is an
\* address; else Waiting("Waiting for DNS service address") without an
\* address; else Active
C13_StatusRuleOrder == StatusRan => StatusByRule

\* an unready Deployment and no address at once: the unready rule wins
C13_Witness ==
    /\ StatusRan
    /\ DeploymentUnready
    /\ ~ServiceAddressed
    /\ last.status.name = "waiting"
    /\ last.status.message # "Waiting for DNS service address"

\* C14: relation data is written only by a status aggregation that ends
\* Active: one that ends Waiting writes to no relation
C14_WaitingWritesNothing ==
    (StatusRan /\ last.status.name = "waiting") =>
        (last.writes = 0 /\ \A r \in Relations : last.rel[r] = NoData)

\* status aggregation ended Active
ActivePass == StatusRan /\ last.status.name = "active"

\* what a relation holds after a write of the current values
Published ==
    ("domain" :> config.domain)
    @@ ("sdn-ip" :> (IF ConfigNs = "kube-system" THEN "10.152.183.10"
                     ELSE "10.152.183.20"))
    @@ ("port" :> "53")

\* C15 as stated: after a status aggregation that ends Active every
\* dns-provider relation holds the current domain, the address observed and
\* port 53
C15_ActivePublishesAll ==
    ActivePass => \A r \in Relations : last.rel[r] = Published

\* C15: after a status aggregation that ends Active every dns-provider
\* relation whose write was not refused holds the current domain, the
\* address observed and port 53
C15_ActivePublishesWritable ==
    ActivePass =>
        /\ last.writes = Cardinality(Relations)
        /\ \A r \in Relations \ last.refused : last.rel[r] = Published

\* update-status after the domain option left its default: the new domain
\* is in every relation
C15_Witness ==
    /\ ActivePass
    /\ last.handler = "on_update_status"
    /\ config.domain # DomainValue
    /\ last.refused = {}
    /\ \A r \in Relations : last.rel[r].domain = config.domain

\* C16: a refused write on one relation leaves the status what the rules
\* give, and every other relation is written
C16_RefusedWriteIsolated ==
    (StatusRan /\ last.refused # {}) =>
        /\ StatusByRule
        /\ last.status.name = "active" =>
               last.version = SHORT_VERSION
        /\ \A r \in Relations \ last.refused :
               last.rel[r] =
                   [Published EXCEPT !["sdn-ip"] = IF ServiceAddressed THEN @ ELSE ""]
        /\ \A r \in last.refused : last.rel[r] = NoData

\* the write on the first relation is refused, the second is written and
\* the pass ends Active
C16_Witness ==
    /\ ActivePass
    /\ last.refused = {1}
    /\ last.rel[2] = Published

\* the sync-resources action met a client error
SyncFailed == last.handler = "sync_resources" /\ last.result # ""

\* C17: a sync-resources action that meets a client error is reported as
\* failed, with "Failed to sync missing resources: " and the detail of the
\* error; it issues no delete call and leaves deployed, config_hash and
\* destroying as they were
C17_SyncFailureFailsAction ==
    SyncFailed =>
        /\ last.failed
        /\ \E id \in Identities :
               last.result =
                   "Failed to sync missing resources: Failed Applying " \o IdStr(id)
        /\ last.deletes = {}
        /\ stored = last.before

ActionNames == {"list_resources", "scrub_resources", "sync_resources"}

\* C18: list-resources, scrub-resources and sync-resources report the same
\* partition for the same configuration and cluster: each reports the
\* analysis of the cluster as it is when the action starts, before any call
\* the action makes
C18_ActionsReportSameAnalysis ==
    [][last'.handler \in ActionNames =>
           last'.report =
               IF Renderable(Config(config))
               THEN Report(analyze(live, Config(config)))
               ELSE NoReport]_vars

\* sync-resources applied resources and reports them as missing
C18_Witness ==
    /\ last.handler = "sync_resources"
    /\ last.applies > 1
    /\ last.result = ""
    /\ last.applied_to = last.report.missing
    /\ \A id \in last.report.missing : live[id] = "charm"

\* the identities the last handler called client.delete for
Deleted == {d.id : d \in last.deletes}

\* C19: list-resources issues no apply and no delete call; scrub-resources
\* deletes only identities reported extra and applies nothing;
\* sync-resources applies only identities reported missing and deletes
\* nothing; none of them touches an identity reported conflicting
C19_ActionsKeepToTheirClass ==
    last.handler \in ActionNames =>
        /\ last.handler = "list_resources" =>
               (last.applies = 0 /\ last.applied_to = {} /\ Deleted = {})
        /\ last.handler = "scrub_resources" =>
               (last.applies = 0 /\ last.applied_to = {}
                /\ Deleted \subseteq last.report.extra)
        /\ last.handler = "sync_resources" =>
               (Deleted = {} /\ last.applied_to \subseteq last.report.missing)
        /\ \A id \in last.report.conflicting :
               /\ id \notin last.applied_to
               /\ id \notin Deleted
               /\ live[id] = "other"

\* scrub-resources deletes the extra resources and leaves a conflicting one
C19_Witness ==
    /\ last.handler = "scrub_resources"
    /\ Deleted # {}
    /\ Deleted = last.report.extra
    /\ last.report.conflicting # {}
    /\ \A id \in Deleted : live[id] = "none"

\* the desired identities of the configuration
Desired == Range(resources(Config(config)))

\* C20: the analysis puts each desired identity in exactly one of matching,
\* missing and conflicting: missing exactly when it is absent, conflicting
\* exactly when it is live without the charm's label; every extra identity
\* is live, carries the label and is not desired
C20_AnalysisPartitions ==
    last.handler = "list_resources" =>
        /\ last.report.correct \cup last.report.missing
               \cup last.report.conflicting = Desired
        /\ last.report.correct \cap last.report.missing = {}
        /\ last.report.correct \cap last.report.conflicting = {}
        /\ last.report.missing \cap last.report.conflicting = {}
        /\ \A id \in Desired :
               /\ id \in last.report.missing <=> live[id] = "none"
               /\ id \in last.report.conflicting <=> live[id] = "other"
        /\ \A id \in last.report.extra : live[id] = "charm" /\ id \notin Desired

\* a cluster with a resource of each class
C20_Witness ==
    /\ last.handler = "list_resources"
    /\ last.report.correct # {}
    /\ last.report.missing # {}
    /\ last.report.conflicting # {}
    /\ last.report.extra # {}

\* the first pass of a fresh leader in which no apply call fails
FirstPass ==
    /\ NormalPass
    /\ leader
    /\ last.before.config_hash = 0
    /\ applied \subseteq {last.hasher}
    /\ last.result = ""

\* what C21 says of the first pass and of a status aggregation without an
\* address
C21_FirstPassApplies ==
    /\ FirstPass =>
           /\ last.applies = Len(resources(Config(config)))
           /\ last.applied_to = Desired
           /\ Cardinality(last.applied_to) = last.applies
           /\ stored.config_hash = last.hasher
           /\ last.hasher = hash(Config(config))
           /\ "status" \in Phases
    /\ (StatusRan /\ ~address) => last.status.name = "waiting"

\* C21 as stated: the first pass of a fresh leader with a complete
\* configuration in an empty cluster applies each resource once and stores
\* the hash; without an address the status is Waiting; once the address is
\* assigned a later event brings the status to Active
C21_AddressLeadsToActive ==
    /\ []C21_FirstPassApplies
    /\ address ~> (last.status.name = "active")

\* C21: the first pass of a fresh leader with a complete configuration in
\* an empty cluster applies each resource once and stores the hash; without
\* an address the status is Waiting; once the address is assigned and the
\* Deployment is ready a later event brings the status to Active
C21_AddressAndReadyLeadToActive ==
    /\ []C21_FirstPassApplies
    /\ (address /\ ready) ~> (last.status.name = "active")

\* a pass for update-status that finds the hash stored by an earlier pass,
\* which did not end reconciled, and ends Active
C21_Witness ==
    /\ ReconcilePass
    /\ last.event = "update_status"
    /\ last.before.config_hash = last.hasher
    /\ last.hasher \in applied
    /\ address
    /\ ready
    /\ last.status = Status("active", "Ready")
    /\ last.app = Status("active", LONG_VERSION)

\* the answers the cluster gave to the delete calls of the last handler
Answers == {d.answer : d \in last.deletes}

\* the purge of a leader's teardown pass in which a delete call was
\* answered not-found or forbidden and none failed otherwise
ToleratedPurge ==
    /\ TeardownPass
    /\ leader
    /\ "purge" \in Phases
    /\ Answers \cap {"not_found", "forbidden"} # {}
    /\ "error" \notin Answers

RbacKinds == {"ClusterRole", "ClusterRoleBinding"}

\* a pass outside teardown in which the apply of an RBAC resource was
\* answered 403
ForbiddenRbacPass ==
    /\ NormalPass
    /\ "apply" \in Phases
    /\ \E id \in last.denied : id.kind \in RbacKinds

\* C23: a pass in which the apply of an RBAC resource is answered 403 is
\* not aborted: the remaining resources are applied and the pass ends
\* Blocked("Forbidden to apply RBAC policies"), not Waiting
C23_ForbiddenRbacBlocks ==
    ForbiddenRbacPass =>
        /\ last.applied_to = Desired
        /\ last.status = Status("blocked", "Forbidden to apply RBAC policies")

\* the last read of the manifest object was of this property, from the
\* configuration as it is now
ReadNow(name) ==
    manifest.call = name /\ ~manifest.raised /\ manifest.derived = Config(config)

\* the namespace the configuration names, {model} standing for the model
ResolvedNs ==
    IF config.coredns_namespace = "{model}" THEN manifest.model.name
    ELSE config.coredns_namespace

Rendered == Range(manifest.resources)

\* C24: the rendered resources hold the ServiceAccount coredns exactly when
\* the configured namespace, {model} replaced, is not the namespace of the
\* model: 5 resources when it is, 6 when it is not
C24_ServiceAccountIffOtherNamespace ==
    ReadNow("resources") =>
        /\ (\E obj \in Rendered : obj.kind = "ServiceAccount" /\ obj.name = "coredns")
               <=> ResolvedNs # manifest.model.name
        /\ Len(manifest.resources) = IF ResolvedNs = manifest.model.name THEN 5 ELSE 6
        /\ Cardinality(Rendered) = Len(manifest.resources)

\* the option names the namespace of the model without the placeholder: no
\* ServiceAccount
C24_Witness ==
    /\ ReadNow("resources")
    /\ config.coredns_namespace = "kube-system"
    /\ manifest.model.name = "kube-system"
    /\ Len(manifest.resources) = 5
    /\ \A obj \in Rendered : obj.kind # "ServiceAccount"

\* C25: in the rendered resources ClusterRole and ClusterRoleBinding have
\* no namespace and every other resource has the configured namespace,
\* {model} replaced by the name of the model; so it is after every change
\* of the configuration, whatever was rendered before
C25_NamespaceOfEveryResource ==
    ReadNow("resources") =>
        \A obj \in Rendered :
            obj.namespace = IF obj.kind \in RbacKinds THEN "" ELSE ResolvedNs

\* a rendering after a change of the option, the one before it in another
\* namespace
C25_Witness ==
    /\ ReadNow("resources")
    /\ changes > 0
    /\ config.coredns_namespace = "{model}"
    /\ \E obj \in Range(manifest.earlier) :
           obj.kind = "Deployment" /\ obj.namespace = "kube-system"
    /\ \E obj \in Rendered : obj.kind = "Deployment" /\ obj.namespace = ModelName
    /\ \E obj \in Rendered : obj.kind = "ClusterRole" /\ obj.namespace = ""

\* the options of the configuration that hold a value: not "", not None
Set == {k \in DOMAIN config : config[k] # "" /\ config[k] # None}

\* the configuration without the options that hold "" or None
Stripped == [k \in Set |-> config[k]]

\* a property of the manifest object was read from the configuration as it
\* is now
ReadAny == manifest.call # "none" /\ manifest.derived = Config(config)

RequiredOptions == {"corefile", "coredns_namespace"}

\* C26: an option that holds "" or None is as an absent one: the derived
\* configuration has no such key, evaluate() reports a required one as not
\* defined, and hash() is the hash of the configuration without it
C26_EmptyIsAbsent ==
    ReadAny =>
        /\ DOMAIN manifest.derived = Set \cup {"release"}
        /\ \A k \in Set : manifest.derived[k] = config[k]
        /\ manifest.call = "evaluate" =>
               /\ (RequiredOptions \ Set # {}) =>
                      \E k \in RequiredOptions \ Set :
                          manifest.evaluation =
                              "Provider manifests waiting for definition of " \o k
               /\ (RequiredOptions \subseteq Set) => manifest.evaluation = ""
        /\ manifest.call = "hash" =>
               manifest.hash =
                   manifest_hash(Config(Stripped), DerivedOrder(manifest.order))

\* hash() of a configuration in which forward is None and the namespace ""
C26_Witness ==
    /\ ReadAny
    /\ manifest.call = "hash"
    /\ DOMAIN config = Range(ConfigOrder)
    /\ config.forward = None
    /\ config.coredns_namespace = ""
    /\ DOMAIN manifest.derived = {"corefile", "domain", "release"}
    /\ manifest.hash = manifest_hash(Config(Stripped), DerivedOrder(manifest.order))

\* C27: hash() is a function of the derived configuration alone: of two
\* calls, with any change of the configuration, of the order of its
\* options, of the cluster and of the stored state in between, the second
\* returns what the first returned exactly when the derived configuration
\* is the same
C27_HashOfDerivedConfigOnly ==
    [][(manifest.call = "hash" /\ manifest'.call = "hash") =>
           /\ (manifest'.derived = manifest.derived) <=> (manifest'.hash = manifest.hash)
           /\ manifest'.hash # 0
           /\ (config' = config /\ stored' = stored
               /\ manifest'.order = manifest.order) =>
                  manifest'.derived = Config(config')]_vars

\* hash() after the options changed their order and the cluster and the
\* stored state changed: the hash of the same configuration in the first
\* order
C27_Witness ==
    /\ ReadAny
    /\ manifest.call = "hash"
    /\ manifest.order = Reverse(ConfigOrder)
    /\ stored.deployed
    /\ \E id \in Identities : live[id] # "none"
    /\ DOMAIN manifest.derived = Range(ConfigOrder) \cup {"release"}
    /\ manifest.hash = manifest_hash(manifest.derived, DerivedOrder(ConfigOrder))

\* what a placeholder of the Corefile becomes: the value of the option when
\* it holds one, else the placeholder as written
Filled(name) == IF name \in Set THEN config[name] ELSE "${" \o name \o "}"

\* C28: the Corefile of the rendered ConfigMap is the text of the corefile
\* option with every ${name} whose name is a key of the derived
\* configuration replaced by the value, and every other ${name}, that of an
\* option set to "" included, left as written; nothing is raised
C28_CorefileSubstitution ==
    (ReadNow("resources") /\ config.corefile = CorefileTemplate) =>
        manifest.corefile =
            "kubernetes " \o Filled("domain") \o " forward . " \o Filled("forward")
            \o " " \o Filled("unknown")

\* the domain is filled in, forward is set to "" and stays a placeholder,
\* as does the name that is no option
C28_Witness ==
    /\ ReadNow("resources")
    /\ "forward" \in DOMAIN config
    /\ config.forward = ""
    /\ manifest.corefile = "kubernetes cluster.local forward . ${forward} ${unknown}"

\* the phases of a pass outside teardown, in their order
PhaseOrder == <<"evaluate", "collisions", "install", "status">>

\* the phases the last handler entered, without the steps within a phase
MainPhases == SelectSeq(last.phases, LAMBDA p : p \in Range(PhaseOrder))

\* C29: a pass outside teardown enters its phases in the order evaluate,
\* collision analysis, install, status aggregation, each only after every
\* phase before it ended without error: it stops after evaluate exactly
\* when the configuration is incomplete, after the collision analysis
\* exactly when a conflict is reported, after install exactly when an apply
\* call failed, and else goes through status aggregation
C29_PhasesInOrder ==
    NormalPass =>
        /\ Len(MainPhases) >= 1
        /\ MainPhases = SubSeq(PhaseOrder, 1, Len(MainPhases))
        /\ Len(MainPhases) = 1 <=> Incomplete
        /\ Len(MainPhases) = 2 <=> last.conflicts > 0
        /\ Len(MainPhases) = 3 <=> last.result # ""
        /\ Len(MainPhases) < 4 => last.err = "reconciler"
        /\ \A i \in 1..Len(last.phases) :
               /\ last.phases[i] = "analyze" => last.phases[i - 1] = "collisions"
               /\ last.phases[i] = "apply" => last.phases[i - 1] = "install"

\* an apply call fails: install is the last phase of the pass
C29_Witness ==
    /\ NormalPass
    /\ last.phases = <<"evaluate", "collisions", "analyze", "install", "apply">>
    /\ last.result # ""
    /\ last.status.name = "waiting"

\* the steps of the last handler in which the analysis ran and in which
\* the hashes were compared
StepOf(phase) == {i \in 1..Len(last.phases) : last.phases[i] = phase}

\* C30: on the leader every pass outside teardown with a complete
\* configuration runs the collision analysis, before the hashes are
\* compared and whether or not they are equal; a conflict it reports stops
\* the pass before install and status aggregation, with the hash of the
\* configuration stored or not
C30_CollisionAnalysisEveryPass ==
    (NormalPass /\ leader /\ ~Incomplete) =>
        /\ StepOf("analyze") # {}
        /\ \A i \in StepOf("analyze") : \A j \in StepOf("install") : i < j
        /\ last.conflicts = Cardinality(Conflicting)
        /\ Conflicting # {} =>
               /\ Phases = {"evaluate", "collisions", "analyze"}
               /\ last.applies = 0
               /\ last.writes = 0
               /\ last.status.name = "blocked"
               /\ last.app.name # "active"

\* the leader applied the configuration, another actor replaced one of the
\* objects, and the next pass, with the hash stored, is blocked
C30_Witness ==
    /\ SameHashPass
    /\ leader
    /\ last.hasher \in applied
    /\ last.conflicts = 1
    /\ "status" \notin Phases
    /\ last.status =
           Status("blocked", "1 Kubernetes resource collision (action: list-resources)")

\* the hash stored when the last handler started is of a configuration this
\* instance never applied: a pass run without leadership stored it
UnappliedHash ==
    last.before.config_hash # 0 /\ last.before.config_hash \notin applied

\* what a pass outside teardown does without leadership, when it gets past
\* evaluation: no analysis, no apply, no delete, the hash stored, status
\* aggregation run
NonLeaderPassStores ==
    /\ "analyze" \notin Phases
    /\ last.applies = 0
    /\ last.deletes = {}
    /\ last.hasher = hash(Config(config))
    /\ stored.config_hash = last.hasher
    /\ "status" \in Phases

\* C31 as stated: every pass outside teardown of a unit that is not the
\* leader issues no analysis, no apply and no delete, stores the hash of the
\* configuration and runs status aggregation; while a hash so stored is the
\* hash of the configuration, this instance issues no apply call
C31_NonLeaderStoresHash ==
    /\ (NormalPass /\ ~leader) => NonLeaderPassStores
    /\ (UnappliedHash /\ last.applies > 0) =>
           (NormalPass /\ last.hasher # last.before.config_hash)

\* C31: a pass outside teardown of a unit that is not the leader issues no
\* analysis, no apply and no delete; with a complete configuration it
\* stores the hash and runs status aggregation.  A later pass of the same
\* instance as leader that finds this hash to be the hash of its
\* configuration skips the apply, so no reconcile pass applies the desired
\* resources until the hash changes; the sync-resources action still does
C31_NonLeaderHashSkipsLeaderApply ==
    /\ (NormalPass /\ ~leader) =>
           /\ "analyze" \notin Phases
           /\ last.applies = 0
           /\ last.deletes = {}
           /\ ~Incomplete => NonLeaderPassStores
    /\ (ReconcilePass /\ leader /\ UnappliedHash
          /\ last.hasher = last.before.config_hash) =>
           /\ last.applies = 0
           /\ "apply" \notin Phases
           /\ stored.config_hash = last.before.config_hash
    /\ (UnappliedHash /\ last.applies > 0) =>
           \/ last.handler = "sync_resources"
           \/ (NormalPass /\ leader /\ last.hasher # last.before.config_hash)

\* the unit stored the hash without leadership, became leader, and its pass
\* with the same configuration applied nothing: every desired resource is
\* still missing from the cluster
C31_Witness ==
    /\ NormalPass
    /\ leader
    /\ UnappliedHash
    /\ last.hasher = last.before.config_hash
    /\ last.applies = 0
    /\ "status" \in Phases
    /\ \A id \in Range(resources(Config(config))) : live[id] = "none"

\* the last handler was _on_update_status
OnUpdateStatusRan == last.handler = "on_update_status"

\* C32: _on_update_status acts only when reconciled is set.  With the flag
\* clear it runs no status aggregation (no query of the service address),
\* writes no relation data, assigns no unit status, no application status
\* and no workload version, issues no cluster call and leaves the stored
\* state as it was; with the flag set it runs status aggregation
C32_UpdateStatusOnlyReconciled ==
    OnUpdateStatusRan =>
        /\ ~reconciled =>
               /\ last.phases = <<>>
               /\ last.writes = 0
               /\ last.rel = [r \in Relations |-> NoData]
               /\ last.status = Unset
               /\ last.app = Unset
               /\ last.version = "unset"
               /\ last.applies = 0
               /\ last.deletes = {}
               /\ stored = last.before
        /\ reconciled => last.phases = <<"status">>

\* the pass before ended Waiting for the Deployment; the Service is live
\* with its address, which status aggregation would have published
C32_Witness ==
    /\ OnUpdateStatusRan
    /\ ~reconciled
    /\ ~Incomplete
    /\ address
    /\ ServiceAddressed
    /\ last.phases = <<>>
    /\ last.writes = 0

\* a leader's teardown pass whose purge failed
FailedPurge == TeardownPass /\ leader /\ last.err # "none"

\* what a teardown pass leaves: the hash is reset only by a leader's purge
\* that issued every delete without a failure it does not pass over, and a
\* failed purge keeps the hash and ends Waiting, destroying set
PurgeOutcome ==
    TeardownPass =>
        /\ stored.destroying
        /\ leader => "purge" \in Phases
        /\ stored.config_hash # last.before.config_hash =>
               /\ leader
               /\ stored.config_hash = 0
               /\ last.err = "none"
               /\ Deleted = Desired
               /\ "error" \notin Answers
        /\ FailedPurge =>
               /\ stored.config_hash = last.before.config_hash
               /\ last.status # Status("blocked", "Removing CoreDNS")
               /\ last.status = Status("waiting", "Manifest purge failed.")

\* C33: a teardown pass resets config_hash to 0 only after every delete of
\* the purge completed without a failure that is not passed over; when the
\* purge fails the hash keeps its value and the pass ends Waiting, not
\* Blocked("Removing CoreDNS"); destroying stays set, so the reconcile pass
\* the leader runs next is a teardown pass that purges again
C33_FailedPurgeKeepsHash ==
    [][/\ PurgeOutcome'
       /\ (FailedPurge /\ last'.handler = "reconcile" /\ leader') =>
              /\ last'.teardown
              /\ last'.before.destroying
              /\ "purge" \in Range(last'.phases)]_vars

\* a delete call of the leader's purge failed: the hash the apply stored is
\* still stored and the pass ended Waiting
C33_Witness ==
    /\ FailedPurge
    /\ "error" \in Answers
    /\ last.before.config_hash # 0
    /\ stored.config_hash = last.before.config_hash
    /\ stored.destroying
    /\ last.status = Status("waiting", "Manifest purge failed.")

\* the leader's pass for a stop or remove event while a required option is
\* unset
IncompleteTeardown ==
    TeardownPass /\ leader /\ last.event \in TeardownEvents /\ Incomplete

\* C34: the purge of a leader's pass for a stop or remove event does not
\* depend on the configuration being complete: with a required option
\* unset it still issues a delete call for every object this charm applied
\* and the pass ends Blocked("Removing CoreDNS")
C34_PurgeWithoutConfiguration ==
    IncompleteTeardown =>
        /\ \A id \in Identities : live[id] = "charm" => id \in Deleted
        /\ last.status = Status("blocked", "Removing CoreDNS")

\* the objects of the last rendering, the cluster-scoped ones and the
\* bindings among them
Objects == Range(manifest.objects)
ClusterScoped == {obj \in Objects : obj.kind \in RbacKinds}
Bindings == {obj \in Objects : obj.kind = "ClusterRoleBinding"}

\* the cluster-scoped identities a charm in model m renders, over every
\* configuration that renders
ClusterIdentities ==
    [m \in Models |->
        UNION {{id \in Range(manifest_resources(cfg, m)) : id.kind \in RbacKinds} :
                   cfg \in {c \in CharmConfigs : Renderable(c)}}]

\* C35: the rendered ClusterRole and ClusterRoleBinding are both named
\* juju:<model name>-<first 8 of the model uuid>:<application name>; no
\* rendered object keeps the upstream name system:coredns, and a charm in
\* a model that differs in name, uuid prefix or application name renders
\* no cluster-scoped identity this one renders
C35_ClusterScopedNames ==
    ReadNow("resources") =>
        /\ {obj.kind : obj \in ClusterScoped} = RbacKinds
        /\ \A obj \in ClusterScoped :
               obj.name = "juju:" \o manifest.model.name \o "-" \o manifest.model.uuid
                          \o ":" \o manifest.model.app
        /\ \A obj \in Objects : obj.name # CLUSTER_ROLE_NAME
        /\ \A m \in Models \ {manifest.model} :
               ClusterIdentities[m] \cap Rendered = {}

\* a rendering in a model that differs from the first in name, uuid and
\* application
C35_Witness ==
    /\ ReadNow("resources")
    /\ manifest.model = [name |-> "kube-system", uuid |-> OtherUuid8, app |-> OtherApp]
    /\ {obj.name : obj \in ClusterScoped} = {"juju:kube-system-7c6d5e4f:dns"}
    /\ Cardinality(ClusterScoped) = 2

\* C36: in every rendered set the roleRef of the ClusterRoleBinding names
\* the rendered ClusterRole
C36_RoleRefIsRenderedRole ==
    ReadNow("resources") =>
        /\ Cardinality(Bindings) = 1
        /\ \A b \in Bindings :
               /\ b.roleRef = b.name
               /\ \E r \in Objects : r.kind = "ClusterRole" /\ r.name = b.roleRef

\* the binding refers to the role by its name in the model
C36_Witness ==
    /\ ReadNow("resources")
    /\ manifest.model = Model
    /\ \E b \in Bindings : b.roleRef = "juju:test-model-0fa1e2b3:coredns"
    /\ [kind |-> "ClusterRole", namespace |-> "",
        name |-> "juju:test-model-0fa1e2b3:coredns"] \in Rendered

\* C37: in every rendered set each subject of the ClusterRoleBinding has
\* the configured namespace, {model} replaced, which is the namespace of
\* the rendered Deployment; the binding is rewritten while it still has
\* its upstream name, the namespace rewrite running before the rename
C37_SubjectsInConfiguredNamespace ==
    ReadNow("resources") =>
        \A b \in Bindings :
            /\ Len(b.subjects) > 0
            /\ \A i \in DOMAIN b.subjects :
                   /\ b.subjects[i].namespace = ResolvedNs
                   /\ \A d \in Objects :
                          d.kind = "Deployment" => d.namespace = b.subjects[i].namespace

\* the subject of the renamed binding is in the namespace of the model,
\* not in the namespace of the upstream release
C37_Witness ==
    /\ ReadNow("resources")
    /\ config.coredns_namespace = "{model}"
    /\ manifest.model.name = ModelName
    /\ \E b \in Bindings :
           /\ b.name # CLUSTER_ROLE_NAME
           /\ \A i \in DOMAIN b.subjects : b.subjects[i].namespace = ModelName

\* C38: evaluate() looks at corefile, then at coredns_namespace, and its
\* message names the first of the two that is absent or empty, corefile
\* when both are; it returns no message exactly when both hold a value
C38_EvaluateNamesFirstMissing ==
    ReadNow("evaluate") =>
        /\ manifest.evaluation =
               IF "corefile" \notin Set
               THEN "Provider manifests waiting for definition of corefile"
               ELSE IF "coredns_namespace" \notin Set
               THEN "Provider manifests waiting for definition of coredns_namespace"
               ELSE ""
        /\ manifest.evaluation = "" <=> RequiredOptions \subseteq Set

\* corefile holds "" and coredns_namespace is not in the configuration:
\* the message names corefile
C38_Witness ==
    /\ ReadNow("evaluate")
    /\ "corefile" \in DOMAIN config
    /\ config.corefile = ""
    /\ "coredns_namespace" \notin DOMAIN config
    /\ manifest.evaluation = "Provider manifests waiting for definition of corefile"

====
